---- MODULE Spec2Model ----
(***************************************************************************)
(* Model of the bolt compiler pipeline: Lexer::tokenize (src/lexer.cpp),   *)
(* Parser::parse (src/parser.cpp) and CodeGenerator::generate              *)
(* (src/codegen.cpp).  Text is a sequence of one-character strings, cursor *)
(* positions are 0-based as in the code (element i of a std::string or a   *)
(* std::vector is element i+1 of the sequence that models it).             *)
(***************************************************************************)
EXTENDS Integers, Sequences, FiniteSets, TLC

VARIABLES
    m_source,      \* Lexer::m_source
    lex,           \* Lexer state: m_current_pos, m_line, the local `tokens`, and std::cerr
    phase,         \* which stage of main() runs: "lex", "parse", "codegen"
    m_tokens,      \* Parser::m_tokens
    par,           \* Parser state: m_current_pos, the position in the grammar functions, the locals, std::cerr
    m_ast,         \* CodeGenerator::m_ast (the statements of the ProgramNode)
    m_output,      \* CodeGenerator::m_output
    results        \* the strings generate() has returned, in call order

vars == <<m_source, lex, phase, m_tokens, par, m_ast, m_output, results>>

-----------------------------------------------------------------------------
(* Bounds of the model *)

\* longest source drawn from all strings over Alphabet
MaxLen == 3
\* longest tail appended to a directive line
MaxTail == 1
\* most function definitions in a generated program
MaxFuncs == 2
\* most return statements in a generated function body
MaxReturns == 2
\* most calls of generate() on one CodeGenerator
MaxGenerate == 2

-----------------------------------------------------------------------------
(* Characters *)

NUL == "NUL"
Digits == {"0", "1", "2", "3", "4", "5", "6", "7", "8", "9"}
Letters ==
    {"a", "b", "c", "d", "e", "f", "g", "h", "i", "j", "k", "l", "m",
     "n", "o", "p", "q", "r", "s", "t", "u", "v", "w", "x", "y", "z",
     "A", "B", "C", "D", "E", "F", "G", "H", "I", "J", "K", "L", "M",
     "N", "O", "P", "Q", "R", "S", "T", "U", "V", "W", "X", "Y", "Z"}
isdigit(c) == c \in Digits
isalpha(c) == c \in Letters
isalnum(c) == isalpha(c) \/ isdigit(c)

-----------------------------------------------------------------------------
(* Tokens *)

Token(type, value, line) == [type |-> type, value |-> value, line |-> line]

kw_int == <<"i", "n", "t">>
kw_char == <<"c", "h", "a", "r">>
kw_return == <<"r", "e", "t", "u", "r", "n">>
kw_for == <<"f", "o", "r">>
txt_include == <<"#", "i", "n", "c", "l", "u", "d", "e">>
txt_ERROR == <<"E", "R", "R", "O", "R">>

\* the keyword map: the token type of an identifier run
keywords(value) ==
    CASE value = kw_int -> "INT"
      [] value = kw_char -> "CHAR"
      [] value = kw_return -> "RETURN"
      [] value = kw_for -> "FOR"
      [] OTHER -> "IDENTIFIER"

\* the single-character cases of the switch in tokenize
SingleChar(c) ==
    CASE c = ";" -> "SEMICOLON"
      [] c = "(" -> "OPEN_PAREN"
      [] c = ")" -> "CLOSE_PAREN"
      [] c = "{" -> "OPEN_BRACE"
      [] c = "}" -> "CLOSE_BRACE"
      [] c = "<" -> "OPEN_ANGLE"
      [] c = ">" -> "CLOSE_ANGLE"
      [] c = "=" -> "EQUALS"
      [] c = "+" -> "PLUS"
      [] c = "-" -> "MINUS"
      [] c = "*" -> "STAR"
      [] OTHER -> "NONE"

-----------------------------------------------------------------------------
(* Lexer helpers, over a source src and a 0-based cursor pos *)

LexAtEnd(src, pos) == pos >= Len(src)

LexPeek(src, pos) == IF LexAtEnd(src, pos) THEN NUL ELSE src[pos + 1]

\* substr(start, end - start)
Substr(src, start, end) == SubSeq(src, start + 1, end)

\* the least element of a non-empty set of positions
Least(S) == CHOOSE i \in S : \A j \in S : i <= j

\* the first position at or after pos that holds character c, or the end of src
FirstAt(src, pos, c) ==
    LET hits == {i \in pos..(Len(src) - 1) : src[i + 1] = c}
    IN IF hits = {} THEN Len(src) ELSE Least(hits)

\* the inner loop of the comment case: advance to the newline or the end
SkipComment(src, pos) == FirstAt(src, pos, "\n")

RECURSIVE skip_whitespace_and_comments(_, _, _)
skip_whitespace_and_comments(src, pos, line) ==
    IF LexAtEnd(src, pos) THEN [pos |-> pos, line |-> line]
    ELSE LET c == LexPeek(src, pos) IN
         CASE c \in {" ", "\r", "\t"} ->
                skip_whitespace_and_comments(src, pos + 1, line)
           [] c = "\n" ->
                skip_whitespace_and_comments(src, pos + 1, line + 1)
           [] c = "/" ->
                IF pos + 1 < Len(src) /\ src[pos + 2] = "/"
                THEN skip_whitespace_and_comments(src, SkipComment(src, pos), line)
                ELSE [pos |-> pos, line |-> line]
           [] OTHER -> [pos |-> pos, line |-> line]

\* a run of letters only: the scan stops at a digit or an underscore
RECURSIVE IdentifierEnd_LettersOnly(_, _)
IdentifierEnd_LettersOnly(src, pos) ==
    IF isalpha(LexPeek(src, pos))
    THEN IdentifierEnd_LettersOnly(src, pos + 1)
    ELSE pos

\* the cursor after the run of characters satisfying the loop condition
RECURSIVE IdentifierEnd(_, _)
IdentifierEnd(src, pos) ==
    IF isalnum(LexPeek(src, pos)) \/ LexPeek(src, pos) = "_"
    THEN IdentifierEnd(src, pos + 1)
    ELSE pos

handle_identifier(src, start, line) ==
    LET end == IdentifierEnd(src, start)
        value == Substr(src, start, end)
    IN [pos |-> end, line |-> line,
        token |-> Token(keywords(value), value, line), err |-> <<>>]

\* a number scan that consumes nothing
NumberEnd_Stuck(src, pos) == pos

RECURSIVE NumberEnd(_, _)
NumberEnd(src, pos) ==
    IF isdigit(LexPeek(src, pos)) THEN NumberEnd(src, pos + 1) ELSE pos

handle_number(src, start, line) ==
    LET end == NumberEnd(src, start)
    IN [pos |-> end, line |-> line,
        token |-> Token("NUMBER_LITERAL", Substr(src, start, end), line), err |-> <<>>]

\* the scanning loop of handle_string: the cursor stops at the next '"' or at the
\* end, and the line has grown by the newlines passed
StringScan(src, pos, line) ==
    LET end == FirstAt(src, pos, "\"")
    IN [pos |-> end,
        line |-> line + Cardinality({i \in pos..(end - 1) : src[i + 1] = "\n"})]

\* a handle_string that returns the rest of the source as a STRING_LITERAL when
\* no closing '"' is found
handle_string_NoSentinel(src, start, line0) ==
    LET s == StringScan(src, start, line0) IN
    [pos |-> IF LexAtEnd(src, s.pos) THEN s.pos ELSE s.pos + 1, line |-> s.line,
     token |-> Token("STRING_LITERAL", Substr(src, start, s.pos), s.line),
     err |-> <<>>]

handle_string(src, start, line0) ==
    LET s == StringScan(src, start, line0) IN
    IF LexAtEnd(src, s.pos)
    THEN [pos |-> s.pos, line |-> s.line,
          token |-> Token("END_OF_FILE", txt_ERROR, s.line),
          err |-> <<[kind |-> "Unterminated string", line |-> s.line, char |-> NUL]>>]
    ELSE [pos |-> s.pos + 1, line |-> s.line,
          token |-> Token("STRING_LITERAL", Substr(src, start, s.pos), s.line),
          err |-> <<>>]

\* number of characters the '#' case adds to the cursor
IncludeSkip == 6

\* the '#' case: pos is the cursor after the '#'
handle_hash(src, pos, line) ==
    IF LexPeek(src, pos) = "i"
    THEN [pos |-> pos + IncludeSkip, line |-> line,
          token |-> <<Token("INCLUDE", txt_include, line)>>, err |-> <<>>]
    ELSE [pos |-> pos, line |-> line, token |-> <<>>, err |-> <<>>]

\* the default case: c is the character just consumed, pos the cursor after it
handle_default(src, c, pos, line) ==
    IF isdigit(c)
    THEN LET r == handle_number(src, pos - 1, line)
         IN [r EXCEPT !.token = <<r.token>>]
    ELSE IF isalpha(c) \/ c = "_"
    THEN LET r == handle_identifier(src, pos - 1, line)
         IN [r EXCEPT !.token = <<r.token>>]
    ELSE [pos |-> pos, line |-> line, token |-> <<>>,
          err |-> <<[kind |-> "Unknown character", line |-> line, char |-> c]>>]

\* char c = advance(); switch (c) {...}: pos is the cursor after c.
\* The result's token is the sequence of tokens pushed (none or one).
ScanToken(src, c, pos, line) ==
    IF SingleChar(c) # "NONE"
    THEN [pos |-> pos, line |-> line,
          token |-> <<Token(SingleChar(c), <<src[pos]>>, line)>>, err |-> <<>>]
    ELSE IF c = "#" THEN handle_hash(src, pos, line)
    ELSE IF c = "\""
    THEN LET r == handle_string(src, pos, line)
         IN [r EXCEPT !.token = <<r.token>>]
    ELSE handle_default(src, c, pos, line)

\* one iteration of the while loop of tokenize, from lexer state st
LexIteration(src, st) ==
    LET sk == skip_whitespace_and_comments(src, st.pos, st.line) IN
    IF LexAtEnd(src, sk.pos)
    THEN [st EXCEPT !.pos = sk.pos, !.line = sk.line]
    ELSE LET r == ScanToken(src, src[sk.pos + 1], sk.pos + 1, sk.line)
         IN [pos |-> r.pos, line |-> r.line,
             tokens |-> st.tokens \o r.token, cerr |-> st.cerr \o r.err]

\* tokens.push_back(make_token(END_OF_FILE, "")); return tokens;
LexReturnTokens(st) == Append(st.tokens, Token("END_OF_FILE", <<>>, st.line))

LexInit == [pos |-> 0, line |-> 1, tokens |-> <<>>, cerr |-> <<>>]

\* the whole of tokenize as a function of the source
RECURSIVE LexRun(_, _)
LexRun(src, st) ==
    IF LexAtEnd(src, st.pos) THEN st ELSE LexRun(src, LexIteration(src, st))

tokenize(src) == LexReturnTokens(LexRun(src, LexInit))

-----------------------------------------------------------------------------
(* AST nodes (parser.hpp) *)

NullNode == [kind |-> "null"]
NumberLiteralNode(value) == [kind |-> "NumberLiteral", value |-> value]
ReturnStmtNode(expr) == [kind |-> "Return", expression |-> expr]
BlockStmtNode(stmts) == [kind |-> "Block", statements |-> stmts]
FunctionDefNode(ret_type, name, body) ==
    [kind |-> "FunctionDef", return_type |-> ret_type, name |-> name, body |-> body]

-----------------------------------------------------------------------------
(* Parser helpers, over the token vector toks and a 0-based cursor pos *)

ParPeek(toks, pos) == toks[pos + 1]

ParAtEnd(toks, pos) == ParPeek(toks, pos).type = "END_OF_FILE"

\* the cursor after advance(); the token it returns is toks[that cursor]
ParAdvance(toks, pos) == IF ~ParAtEnd(toks, pos) THEN pos + 1 ELSE pos

check(toks, pos, type) ==
    IF ParAtEnd(toks, pos) THEN FALSE ELSE ParPeek(toks, pos).type = type

\* an expect that advances before it compares the token type
expect_Consuming(toks, pos, type, message) ==
    [ok |-> check(toks, pos, type), pos |-> ParAdvance(toks, pos),
     token |-> toks[ParAdvance(toks, pos)], what |-> message]

\* ok: the token was consumed and is returned; otherwise runtime_error(message)
expect(toks, pos, type, message) ==
    IF check(toks, pos, type)
    THEN [ok |-> TRUE, pos |-> ParAdvance(toks, pos),
          token |-> toks[ParAdvance(toks, pos)], what |-> message]
    ELSE [ok |-> FALSE, pos |-> pos, token |-> ParPeek(toks, pos), what |-> message]

\* a parse_expression that returns an empty expression instead of failing
parse_expression_Empty(toks, pos) ==
    IF check(toks, pos, "NUMBER_LITERAL")
    THEN [ok |-> TRUE, pos |-> ParAdvance(toks, pos),
          node |-> NumberLiteralNode(toks[ParAdvance(toks, pos)].value),
          what |-> "Expected an expression (e.g., a number)."]
    ELSE [ok |-> TRUE, pos |-> pos, node |-> NullNode,
          what |-> "Expected an expression (e.g., a number)."]

\* ok: the NumberLiteralNode; otherwise runtime_error
parse_expression(toks, pos) ==
    IF check(toks, pos, "NUMBER_LITERAL")
    THEN [ok |-> TRUE, pos |-> ParAdvance(toks, pos),
          node |-> NumberLiteralNode(toks[ParAdvance(toks, pos)].value),
          what |-> "Expected an expression (e.g., a number)."]
    ELSE [ok |-> FALSE, pos |-> pos, node |-> NullNode,
          what |-> "Expected an expression (e.g., a number)."]

\* the test of parse_declaration that selects parse_function_definition
IsFunctionStart(toks, pos) ==
    check(toks, pos, "INT") /\ toks[pos + 2].type = "IDENTIFIER"

ParInit ==
    [pos |-> 0, pc |-> "parse", statements |-> <<>>,
     type |-> <<>>, name |-> <<>>, block |-> <<>>, expr |-> NullNode, cerr |-> <<>>]

\* throw std::runtime_error(what), caught by the handler in parse(): report and break
Throw(p, what) ==
    [p EXCEPT !.pc = "caught",
              !.cerr = Append(@, [kind |-> "Parse Error", what |-> what])]

\* std::cerr << "Parser Warning: ..." << advance().to_string()
Warn(p, what, tok) ==
    Append(p.cerr, [kind |-> "Parser Warning", what |-> what \o tok.value])

\* program.statements.push_back(<result of parse_declaration>)
PushDeclaration(stmts, node) == Append(stmts, node)

\* if (stmt) block->statements.push_back(stmt)
PushStatement(stmts, node) == IF node # NullNode THEN Append(stmts, node) ELSE stmts

-----------------------------------------------------------------------------
(* Code generation: the text each visit appends to m_output *)

txt_global == <<"g", "l", "o", "b", "a", "l", " ", "m", "a", "i", "n", "\n">>
txt_section == <<"s", "e", "c", "t", "i", "o", "n", " ", ".", "t", "e", "x", "t", "\n">>
txt_push_rbp == <<" ", " ", "p", "u", "s", "h", " ", "r", "b", "p", "\n">>
txt_mov_rbp_rsp ==
    <<" ", " ", "m", "o", "v", " ", "r", "b", "p", ",", " ", "r", "s", "p", "\n">>
txt_mov_rsp_rbp ==
    <<" ", " ", "m", "o", "v", " ", "r", "s", "p", ",", " ", "r", "b", "p", "\n">>
txt_pop_rbp == <<" ", " ", "p", "o", "p", " ", "r", "b", "p", "\n">>
txt_ret == <<" ", " ", "r", "e", "t", "\n">>
txt_mov_rax == <<" ", " ", "m", "o", "v", " ", "r", "a", "x", ",", " ">>

\* visit(NumberLiteralNode*)
VisitNumberLiteral(node) == txt_mov_rax \o node.value \o <<"\n">>

\* visit(ExprNode*): anything that is no NumberLiteralNode only warns
VisitExpr(node) ==
    IF node.kind = "NumberLiteral" THEN VisitNumberLiteral(node) ELSE <<>>

\* visit(ReturnStmtNode*)
VisitReturn(node) ==
    VisitExpr(node.expression) \o txt_mov_rsp_rbp \o txt_pop_rbp \o txt_ret

RECURSIVE VisitStmt(_)
RECURSIVE VisitAll(_)

\* the loop over a statement vector (generate and visit(BlockStmtNode*))
VisitAll(stmts) ==
    IF stmts = <<>> THEN <<>>
    ELSE VisitStmt(Head(stmts)) \o VisitAll(Tail(stmts))

\* a visit(FunctionDefNode*) that closes every function with an epilogue of its own
VisitFunctionDef_WithEpilogue(node) ==
    node.name \o <<":", "\n">> \o txt_push_rbp \o txt_mov_rbp_rsp \o VisitStmt(node.body)
    \o txt_mov_rsp_rbp \o txt_pop_rbp \o txt_ret

\* visit(FunctionDefNode*)
VisitFunctionDef(node) ==
    node.name \o <<":", "\n">> \o txt_push_rbp \o txt_mov_rbp_rsp \o VisitStmt(node.body)

\* visit(StmtNode*): the dynamic_cast router
VisitStmt(node) ==
    CASE node.kind = "null" -> <<>>
      [] node.kind = "FunctionDef" -> VisitFunctionDef(node)
      [] node.kind = "Return" -> VisitReturn(node)
      [] node.kind = "Block" -> VisitAll(node.statements)
      [] OTHER -> <<>>

\* what one call of generate() leaves in m_output, given what it held
GenerateInto(out, ast) == out \o txt_global \o txt_section \o VisitAll(ast)

-----------------------------------------------------------------------------
(* The sources the pipeline is run on *)

\* characters of short sources: all ASCII, so the <cctype> calls are defined
Alphabet == {" ", "\n", "/", "\"", "#", "i", ";", "0", "a", "@"}

\* every string over Alphabet of length at most n
Strings(n) == UNION {[1..k -> Alphabet] : k \in 0..n}

ShortSources == Strings(MaxLen)

\* directive lines followed by a short tail
DirectiveHeads ==
    {txt_include, <<"#", "i", "f", " ", "1", "\n">>, <<"#", "i", "\n">>}
DirectiveSources == {h \o t : h \in DirectiveHeads, t \in Strings(MaxTail)}

DigitChar(n) == <<"0", "1", "2", "3", "4", "5", "6", "7", "8", "9">>[(n % 10) + 1]

\* the name of the k-th function and the number its j-th return statement returns
FuncName(k) == IF k = 1 THEN <<"m", "a", "i", "n">> ELSE <<"f", DigitChar(k)>>
Numeral(k, j) == IF j = 1 THEN <<"0">> ELSE <<"4", DigitChar(j)>>

RECURSIVE ReturnPieces(_, _)
ReturnPieces(k, n) ==
    IF n = 0 THEN <<>>
    ELSE ReturnPieces(k, n - 1) \o <<kw_return, Numeral(k, n), <<";">>>>

FuncPieces(k, n) ==
    <<kw_int, FuncName(k), <<"(">>, <<")">>, <<"{">>>> \o ReturnPieces(k, n) \o <<<<"}">>>>

\* a program shape: for each function, in order, the number of its return statements
Shapes == UNION {[1..n -> 0..MaxReturns] : n \in 0..MaxFuncs}

RECURSIVE ProgramPieces(_, _)
ProgramPieces(shape, k) ==
    IF k = 0 THEN <<>>
    ELSE ProgramPieces(shape, k - 1) \o FuncPieces(k, shape[k])

\* the text between two adjacent lexemes
Separator(prev, cur) ==
    IF prev = <<"}">> THEN <<"\n">>
    ELSE IF cur \in {<<"{">>, <<"}">>} \/ prev = <<"{">> THEN <<" ">>
    ELSE IF (isalnum(prev[Len(prev)]) \/ prev[Len(prev)] = "\"")
            /\ (isalnum(cur[1]) \/ cur[1] = "\"") THEN <<" ">>
    ELSE <<>>

RECURSIVE Render(_)
Render(pieces) ==
    IF Len(pieces) = 0 THEN <<>>
    ELSE IF Len(pieces) = 1 THEN pieces[1]
    ELSE Render(SubSeq(pieces, 1, Len(pieces) - 1))
         \o Separator(pieces[Len(pieces) - 1], pieces[Len(pieces)])
         \o pieces[Len(pieces)]

ProgramSource(shape) == Render(ProgramPieces(shape, Len(shape)))

\* lexemes an edit puts in place of one lexeme of a program
EditPieces == {<<";">>, <<"+">>, <<"\"">>, <<"0">>, <<"x">>, kw_int}

\* a program with one lexeme replaced or removed, or cut off after some lexeme
Edits(pieces) ==
    {[pieces EXCEPT ![i] = q] : i \in 1..Len(pieces), q \in EditPieces}
    \cup {SubSeq(pieces, 1, i - 1) \o SubSeq(pieces, i + 1, Len(pieces)) : i \in 1..Len(pieces)}
    \cup {SubSeq(pieces, 1, i) : i \in 0..Len(pieces)}

ProgramSources == {ProgramSource(sh) : sh \in Shapes}
\* the programs that are edited: every function has the same number of returns
EditShapes == {[k \in 1..n |-> r] : n \in 1..MaxFuncs, r \in 0..MaxReturns}
EditedSources ==
    UNION {{Render(e) : e \in Edits(ProgramPieces(sh, Len(sh)))} : sh \in EditShapes}

\* words: the keywords, a keyword in another case, keywords lengthened by a
\* letter, by an underscore and a digit, and a keyword after a digit
Words ==
    {kw_int, kw_char, kw_return, kw_for, <<"I", "n", "t">>,
     kw_int \o <<"x">>, kw_for \o <<"_", "7">>, <<"7">> \o kw_int}

\* at most MaxLen words, one space between two words
WordSources == {Render(w) : w \in UNION {[1..k -> Words] : k \in 0..MaxLen}}

Sources ==
    ShortSources \cup DirectiveSources \cup ProgramSources \cup EditedSources
    \cup WordSources

-----------------------------------------------------------------------------
(* The pipeline of main() *)

Init ==
    /\ m_source \in Sources
    /\ lex = LexInit
    /\ phase = "lex"
    /\ m_tokens = <<>>
    /\ par = ParInit
    /\ m_ast = <<>>
    /\ m_output = <<>>
    /\ results = <<>>

\* one iteration of the loop of Lexer::tokenize
LexStep ==
    /\ phase = "lex"
    /\ ~LexAtEnd(m_source, lex.pos)
    /\ lex' = LexIteration(m_source, lex)
    /\ UNCHANGED <<m_source, phase, m_tokens, par, m_ast, m_output, results>>

\* the end of Lexer::tokenize; main() hands the tokens to the Parser
LexReturn ==
    /\ phase = "lex"
    /\ LexAtEnd(m_source, lex.pos)
    /\ m_tokens' = LexReturnTokens(lex)
    /\ phase' = "parse"
    /\ UNCHANGED <<m_source, lex, par, m_ast, m_output, results>>

\* parse_declaration on `int IDENTIFIER`: parse_function_definition consumes the type
ParseDeclFunction ==
    /\ phase = "parse" /\ par.pc = "parse"
    /\ ~ParAtEnd(m_tokens, par.pos)
    /\ IsFunctionStart(m_tokens, par.pos)
    /\ par' = [par EXCEPT !.pos = ParAdvance(m_tokens, par.pos),
                          !.type = m_tokens[ParAdvance(m_tokens, par.pos)].value,
                          !.pc = "fn_name"]
    /\ UNCHANGED <<m_source, lex, phase, m_tokens, m_ast, m_output, results>>

\* parse_declaration on anything else: warn, advance, and parse() pushes the nullptr
ParseDeclSkip ==
    /\ phase = "parse" /\ par.pc = "parse"
    /\ ~ParAtEnd(m_tokens, par.pos)
    /\ ~IsFunctionStart(m_tokens, par.pos)
    /\ par' = [par EXCEPT !.pos = ParAdvance(m_tokens, par.pos),
                          !.cerr = Warn(par, <<"top-level">>, m_tokens[ParAdvance(m_tokens, par.pos)]),
                          !.statements = PushDeclaration(@, NullNode)]
    /\ UNCHANGED <<m_source, lex, phase, m_tokens, m_ast, m_output, results>>

\* parse_function_definition: expect(IDENTIFIER)
FnName ==
    /\ phase = "parse" /\ par.pc = "fn_name"
    /\ LET e == expect(m_tokens, par.pos, "IDENTIFIER", "Expected function name.")
       IN par' = IF e.ok
                 THEN [par EXCEPT !.pos = e.pos, !.name = e.token.value, !.pc = "fn_open"]
                 ELSE Throw([par EXCEPT !.pos = e.pos], e.what)
    /\ UNCHANGED <<m_source, lex, phase, m_tokens, m_ast, m_output, results>>

\* parse_function_definition: expect(OPEN_PAREN)
FnOpenParen ==
    /\ phase = "parse" /\ par.pc = "fn_open"
    /\ LET e == expect(m_tokens, par.pos, "OPEN_PAREN", "Expected '(' after function name.")
       IN par' = IF e.ok
                 THEN [par EXCEPT !.pos = e.pos, !.pc = "fn_close"]
                 ELSE Throw([par EXCEPT !.pos = e.pos], e.what)
    /\ UNCHANGED <<m_source, lex, phase, m_tokens, m_ast, m_output, results>>

\* parse_function_definition: expect(CLOSE_PAREN)
FnCloseParen ==
    /\ phase = "parse" /\ par.pc = "fn_close"
    /\ LET e == expect(m_tokens, par.pos, "CLOSE_PAREN", "Expected ')' after parameters.")
       IN par' = IF e.ok
                 THEN [par EXCEPT !.pos = e.pos, !.pc = "block_open"]
                 ELSE Throw([par EXCEPT !.pos = e.pos], e.what)
    /\ UNCHANGED <<m_source, lex, phase, m_tokens, m_ast, m_output, results>>

\* parse_block_statement: expect(OPEN_BRACE), then the empty BlockStmtNode
BlockOpen ==
    /\ phase = "parse" /\ par.pc = "block_open"
    /\ LET e == expect(m_tokens, par.pos, "OPEN_BRACE", "Expected '{' to begin a block.")
       IN par' = IF e.ok
                 THEN [par EXCEPT !.pos = e.pos, !.block = <<>>, !.pc = "block_loop"]
                 ELSE Throw([par EXCEPT !.pos = e.pos], e.what)
    /\ UNCHANGED <<m_source, lex, phase, m_tokens, m_ast, m_output, results>>

\* a loop condition that does not test is_at_end()
InBlock_NoEndCheck(toks, pos) == ~check(toks, pos, "CLOSE_BRACE")

\* the loop condition of parse_block_statement
InBlock(toks, pos) == ~check(toks, pos, "CLOSE_BRACE") /\ ~ParAtEnd(toks, pos)

\* parse_statement on `return`: parse_return_statement consumes the keyword
StmtReturn ==
    /\ phase = "parse" /\ par.pc = "block_loop"
    /\ InBlock(m_tokens, par.pos)
    /\ check(m_tokens, par.pos, "RETURN")
    /\ par' = [par EXCEPT !.pos = ParAdvance(m_tokens, par.pos), !.pc = "return_expr"]
    /\ UNCHANGED <<m_source, lex, phase, m_tokens, m_ast, m_output, results>>

\* parse_statement on anything else: warn, advance, return nullptr (not pushed)
StmtSkip ==
    /\ phase = "parse" /\ par.pc = "block_loop"
    /\ InBlock(m_tokens, par.pos)
    /\ ~check(m_tokens, par.pos, "RETURN")
    /\ par' = [par EXCEPT !.pos = ParAdvance(m_tokens, par.pos),
                          !.cerr = Warn(par, <<"block">>, m_tokens[ParAdvance(m_tokens, par.pos)]),
                          !.block = PushStatement(@, NullNode)]
    /\ UNCHANGED <<m_source, lex, phase, m_tokens, m_ast, m_output, results>>

\* parse_return_statement: parse_expression
ReturnExpr ==
    /\ phase = "parse" /\ par.pc = "return_expr"
    /\ LET e == parse_expression(m_tokens, par.pos)
       IN par' = IF e.ok
                 THEN [par EXCEPT !.pos = e.pos, !.expr = e.node, !.pc = "return_semi"]
                 ELSE Throw([par EXCEPT !.pos = e.pos], e.what)
    /\ UNCHANGED <<m_source, lex, phase, m_tokens, m_ast, m_output, results>>

\* parse_return_statement: expect(SEMICOLON), then the ReturnStmtNode goes into the block
ReturnSemi ==
    /\ phase = "parse" /\ par.pc = "return_semi"
    /\ LET e == expect(m_tokens, par.pos, "SEMICOLON", "Expected ';' after return value.")
       IN par' = IF e.ok
                 THEN [par EXCEPT !.pos = e.pos,
                                  !.block = PushStatement(@, ReturnStmtNode(par.expr)),
                                  !.pc = "block_loop"]
                 ELSE Throw([par EXCEPT !.pos = e.pos], e.what)
    /\ UNCHANGED <<m_source, lex, phase, m_tokens, m_ast, m_output, results>>

\* the end of parse_block_statement: expect(CLOSE_BRACE); the FunctionDefNode is
\* built and parse() pushes it
BlockClose ==
    /\ phase = "parse" /\ par.pc = "block_loop"
    /\ ~InBlock(m_tokens, par.pos)
    /\ LET e == expect(m_tokens, par.pos, "CLOSE_BRACE", "Expected '}' to end a block.")
       IN par' = IF e.ok
                 THEN [par EXCEPT !.pos = e.pos,
                                  !.statements = PushDeclaration(@,
                                      FunctionDefNode(par.type, par.name, BlockStmtNode(par.block))),
                                  !.pc = "parse"]
                 ELSE Throw([par EXCEPT !.pos = e.pos], e.what)
    /\ UNCHANGED <<m_source, lex, phase, m_tokens, m_ast, m_output, results>>

\* the end of parse(): the loop ended or broke; main() moves the program into
\* the CodeGenerator
ParseReturn ==
    /\ phase = "parse"
    /\ \/ par.pc = "parse" /\ ParAtEnd(m_tokens, par.pos)
       \/ par.pc = "caught"
    /\ m_ast' = par.statements
    /\ par' = [par EXCEPT !.pc = "returned"]
    /\ phase' = "codegen"
    /\ UNCHANGED <<m_source, lex, m_tokens, m_output, results>>

\* one call of CodeGenerator::generate
Generate ==
    /\ phase = "codegen"
    /\ Len(results) < MaxGenerate
    /\ m_output' = GenerateInto(m_output, m_ast)
    /\ results' = Append(results, m_output')
    /\ UNCHANGED <<m_source, lex, phase, m_tokens, par, m_ast>>

Next ==
    \/ LexStep
    \/ LexReturn
    \/ ParseDeclFunction
    \/ ParseDeclSkip
    \/ FnName
    \/ FnOpenParen
    \/ FnCloseParen
    \/ BlockOpen
    \/ StmtReturn
    \/ StmtSkip
    \/ ReturnExpr
    \/ ReturnSemi
    \/ BlockClose
    \/ ParseReturn
    \/ Generate

Spec == Init /\ [][Next]_vars

-----------------------------------------------------------------------------
(* Lexer::tokenize alone, run to its return *)

\* whitespace, '/', '#', 'i', '"' and a digit: the characters of comments,
\* directives and strings
TokenizerAlphabet == {"\n", "/", "\"", "#", "i", "0"}

TokenizerSources ==
    UNION {[1..k -> TokenizerAlphabet] : k \in 0..MaxLen}
    \cup DirectiveSources \cup ProgramSources

TokenizerInit ==
    /\ m_source \in TokenizerSources
    /\ lex = LexInit
    /\ phase = "lex"
    /\ m_tokens = <<>>
    /\ par = ParInit
    /\ m_ast = <<>>
    /\ m_output = <<>>
    /\ results = <<>>

TokenizerNext == LexStep \/ LexReturn

\* tokenize is a sequential loop that its caller runs to the return: an
\* iteration that can run does run, and so does the return after the loop
TokenizerSpec ==
    TokenizerInit /\ [][TokenizerNext]_vars /\ WF_vars(LexStep) /\ WF_vars(LexReturn)

-----------------------------------------------------------------------------
(* Properties of the tokenizer *)

TokenTypes(toks) == [i \in 1..Len(toks) |-> toks[i].type]

CountOfType(toks, type) == Cardinality({i \in 1..Len(toks) : toks[i].type = type})

\* the position where the iteration of the loop from lexer state st meets its
\* first character that is neither whitespace nor comment
TokenStart(src, st) == skip_whitespace_and_comments(src, st.pos, st.line).pos

\* the number of newline characters among the first n characters of src
NewlinesBefore(src, n) == Cardinality({i \in 1..n : i <= Len(src) /\ src[i] = "\n"})

LastToken(toks) == toks[Len(toks)]

\* C1: the sequence tokenize returns holds exactly one END_OF_FILE token, and
\* that token is its last element, for every source.
C1_ExactlyOneEndOfFile ==
    phase # "lex" =>
        /\ CountOfType(m_tokens, "END_OF_FILE") = 1
        /\ LastToken(m_tokens).type = "END_OF_FILE"

\* C3: every token pushed reports the line 1 + (newlines before its first
\* character); the closing END_OF_FILE token stands at the end of the source.
C3_LineIsNewlinesBeforePlusOne ==
    [][/\ (LexStep /\ Len(lex'.tokens) > Len(lex.tokens)) =>
            LastToken(lex'.tokens).line
                = 1 + NewlinesBefore(m_source, TokenStart(m_source, lex))
       /\ LexReturn =>
            LastToken(m_tokens').line = 1 + NewlinesBefore(m_source, Len(m_source))]_vars

\* C6: at '#' followed by 'i' the tokenizer consumes the '#' and the word
\* `include` and pushes one INCLUDE token: the source `#include` yields exactly
\* the kinds INCLUDE, END_OF_FILE.
C6_IncludeYieldsOneToken ==
    (phase # "lex" /\ m_source = txt_include) =>
        TokenTypes(m_tokens) = <<"INCLUDE", "END_OF_FILE">>

\* a character that none of the token rules of tokenize matches, given the
\* character next after it
NoTokenRule(c, next) ==
    /\ SingleChar(c) = "NONE"
    /\ ~(c = "#" /\ next = "i")
    /\ c # "\""
    /\ ~isdigit(c)
    /\ ~(isalpha(c) \/ c = "_")

\* C8: a character the tokenizer reaches that no token rule matches is reported
\* as an unknown character with the current line, pushes no token, and scanning
\* goes on with the next character.
C8_UnknownCharacterReported ==
    [][(/\ LexStep
        /\ ~LexAtEnd(m_source, TokenStart(m_source, lex))
        /\ NoTokenRule(LexPeek(m_source, TokenStart(m_source, lex)),
                       LexPeek(m_source, TokenStart(m_source, lex) + 1))) =>
            /\ lex'.cerr = Append(lex.cerr,
                   [kind |-> "Unknown character", line |-> lex'.line,
                    char |-> LexPeek(m_source, TokenStart(m_source, lex))])
            /\ lex'.tokens = lex.tokens
            /\ lex'.pos = TokenStart(m_source, lex) + 1]_vars

\* the iteration from lexer state st meets a '"' that no later '"' closes
OpensUnterminatedString(src, st) ==
    /\ LexPeek(src, TokenStart(src, st)) = "\""
    /\ \A i \in (TokenStart(src, st) + 2)..Len(src) : src[i] # "\""

\* C9: when the tokenizer opens a string literal at a '"' that has no closing
\* '"', it reports "Unterminated string", pushes an END_OF_FILE token in place
\* of a STRING_LITERAL, pushes nothing but the closing END_OF_FILE after it, and
\* the tokens pushed before are those of the source cut off just before the '"'.
C9_UnterminatedString ==
    [][/\ (LexStep /\ OpensUnterminatedString(m_source, lex)) =>
            /\ Len(lex'.cerr) = Len(lex.cerr) + 1
            /\ lex'.cerr[Len(lex'.cerr)].kind = "Unterminated string"
            /\ Len(lex'.tokens) = Len(lex.tokens) + 1
            /\ SubSeq(lex'.tokens, 1, Len(lex.tokens)) = lex.tokens
            /\ LastToken(lex'.tokens).type = "END_OF_FILE"
            /\ LexAtEnd(m_source, lex'.pos)
            /\ LET cut == tokenize(SubSeq(m_source, 1, TokenStart(m_source, lex)))
               IN lex.tokens = SubSeq(cut, 1, Len(cut) - 1)
       /\ (phase = "lex" /\ phase' # "lex") =>
            /\ Len(m_tokens') = Len(lex.tokens) + 1
            /\ SubSeq(m_tokens', 1, Len(lex.tokens)) = lex.tokens
            /\ LastToken(m_tokens').type = "END_OF_FILE"
       /\ (\E i \in 1..Len(lex.cerr) : lex.cerr[i].kind = "Unterminated string") =>
            lex'.tokens = lex.tokens]_vars

\* an unterminated string after at least one token: its END_OF_FILE stands in
\* the returned sequence, before the closing one
C9_Witness ==
    /\ phase = "parse"
    /\ Len(lex.cerr) > 0
    /\ lex.cerr[Len(lex.cerr)].kind = "Unterminated string"
    /\ Len(m_tokens) >= 3
    /\ m_tokens[1].type # "END_OF_FILE"
    /\ m_tokens[Len(m_tokens) - 1].value = txt_ERROR

WordChars == Letters \cup Digits \cup {"_"}

\* the longest run of characters of the set chars that starts at position start
MaximalRun(src, start, chars) ==
    LET stops == {i \in start..(Len(src) - 1) : src[i + 1] \notin chars}
    IN Substr(src, start, IF stops = {} THEN Len(src) ELSE Least(stops))

KeywordText == [INT |-> kw_int, CHAR |-> kw_char, RETURN |-> kw_return, FOR |-> kw_for]
KeywordTypes == DOMAIN KeywordText

\* C11: the text of a NUMBER_LITERAL token is the maximal run of digits that
\* starts at the token's position, the text of an IDENTIFIER or keyword token is
\* the maximal run of letters, digits and underscores that starts there, and the
\* token pushed has a keyword kind exactly when that whole run is that keyword.
C11_LongestMatch ==
    [][(LexStep /\ Len(lex'.tokens) > Len(lex.tokens)) =>
            LET t == LastToken(lex'.tokens)
                start == TokenStart(m_source, lex)
                word == MaximalRun(m_source, start, WordChars)
            IN /\ t.type = "NUMBER_LITERAL" =>
                    /\ t.value = MaximalRun(m_source, start, Digits)
                    /\ t.value # <<>>
               /\ t.type \in KeywordTypes \cup {"IDENTIFIER"} =>
                    /\ t.value = word
                    /\ t.value # <<>>
               /\ t.type \in KeywordTypes <=>
                    \E k \in KeywordTypes : word = KeywordText[k]
               /\ t.type \in KeywordTypes => word = KeywordText[t.type]]_vars

\* a keyword lengthened by a letter is one IDENTIFIER, a keyword in another case
\* is an IDENTIFIER, and the keyword alone has its kind
C11_Witness ==
    /\ phase = "parse"
    /\ Len(m_tokens) = 4
    /\ m_tokens[1] = Token("IDENTIFIER", kw_int \o <<"x">>, 1)
    /\ m_tokens[2].type \in KeywordTypes
    /\ m_tokens[3] = Token("IDENTIFIER", <<"I", "n", "t">>, 1)

\* C12: every iteration of the loop of tokenize moves the cursor forward by at
\* least one character and leaves it no further than the '#' case can carry it
\* past the end of the source, and tokenize returns the token sequence.
C12_TokenizeTerminates ==
    /\ [][LexStep =>
            /\ lex'.pos > lex.pos
            /\ lex'.pos < Len(m_source) + IncludeSkip]_vars
    /\ <>(phase # "lex" /\ m_tokens = LexReturnTokens(lex))

\* tokenize has returned on a source with a lone '/', a '#' near the end and an
\* unterminated string
C12_Witness ==
    /\ phase = "parse"
    /\ m_source = <<"/", "#", "\"">>
    /\ lex.pos = Len(m_source)
    /\ Len(lex.cerr) = 2

-----------------------------------------------------------------------------
(* Properties of the parser *)

\* C4: a top-level token that does not begin `int IDENTIFIER` is reported and
\* discarded alone, adds no entry to the declaration list (the list parse
\* returns holds exactly the function definitions parsed), and parsing goes on.
C4_SkippedTokenAddsNoEntry ==
    [][ParseDeclSkip =>
            /\ par'.pos = par.pos + 1
            /\ Len(par'.cerr) = Len(par.cerr) + 1
            /\ par'.pc = "parse"
            /\ par'.statements = par.statements]_vars

\* the grammar functions that run inside parse_function_definition
InFunction == {"fn_name", "fn_open", "fn_close", "block_open", "block_loop",
               "return_expr", "return_semi"}

\* the grammar expectation at position pc fails on a token of this type
ExpectationFails(pc, type) ==
    CASE pc = "fn_name" -> type # "IDENTIFIER"
      [] pc = "fn_open" -> type # "OPEN_PAREN"
      [] pc = "fn_close" -> type # "CLOSE_PAREN"
      [] pc = "block_open" -> type # "OPEN_BRACE"
      [] pc = "block_loop" -> type = "END_OF_FILE"
      [] pc = "return_expr" -> type # "NUMBER_LITERAL"
      [] pc = "return_semi" -> type # "SEMICOLON"
      [] OTHER -> FALSE

\* C7: when a grammar expectation fails inside a function definition, parse
\* stops there: the failing token is not consumed, the declaration list stays
\* what it was before the failing declaration began, nothing after the failure
\* is consumed, and that list is the Program returned.
C7_SyntaxErrorStopsParse ==
    [][/\ (/\ phase = "parse" /\ par.pc \in InFunction
           /\ ExpectationFails(par.pc, ParPeek(m_tokens, par.pos).type)) =>
            /\ par'.pc = "caught"
            /\ par'.pos = par.pos
            /\ par'.statements = par.statements
       /\ (par.pc \in InFunction /\ par'.pc # "parse") =>
            par'.statements = par.statements
       /\ par.pc = "caught" =>
            /\ par'.pc = "returned"
            /\ par'.pos = par.pos
            /\ m_ast' = par.statements
       /\ par.pc = "returned" => (par' = par /\ m_ast' = m_ast)]_vars

\* a syntax error in a second function definition, with tokens left after it
C7_Witness ==
    /\ par.pc = "caught"
    /\ Len(par.statements) >= 1
    /\ par.statements[1].kind = "FunctionDef"
    /\ ParPeek(m_tokens, par.pos).type # "END_OF_FILE"
    /\ par.pos + 2 < Len(m_tokens)

ReturnHasNumber(node) ==
    node.kind = "Return" => node.expression.kind = "NumberLiteral"

ReturnsHaveNumbers(stmts) ==
    \A i \in 1..Len(stmts) :
        /\ ReturnHasNumber(stmts[i])
        /\ stmts[i].kind = "FunctionDef" =>
               \A j \in 1..Len(stmts[i].body.statements) :
                   ReturnHasNumber(stmts[i].body.statements[j])

\* C10: every Return node the parser builds holds a NumberLiteral; when the
\* token after `return` is no NUMBER_LITERAL, parse_expression fails with a
\* syntax error and no Return node is built.
C10_ReturnHasExpression ==
    [][/\ ReturnsHaveNumbers(par'.block)
       /\ ReturnsHaveNumbers(par'.statements)
       /\ ReturnsHaveNumbers(m_ast')
       /\ (/\ phase = "parse" /\ par.pc = "return_expr"
           /\ ParPeek(m_tokens, par.pos).type # "NUMBER_LITERAL") =>
            /\ par'.pc = "caught"
            /\ par'.cerr[Len(par'.cerr)].what = "Expected an expression (e.g., a number)."
            /\ par'.block = par.block
            /\ par'.statements = par.statements]_vars

\* `return` followed by an operator or by the end of the tokens, in a body that
\* already holds a Return node
C10_Witness ==
    /\ par.pc = "caught"
    /\ par.cerr[Len(par.cerr)].what = "Expected an expression (e.g., a number)."
    /\ ParPeek(m_tokens, par.pos).type \in {"PLUS", "END_OF_FILE"}
    /\ Len(par.block) >= 1
    /\ par.block[1].kind = "Return"

\* the 0-based index of the first END_OF_FILE token
FirstEndOfFile(toks) ==
    Least({i \in 0..(Len(toks) - 1) : toks[i + 1].type = "END_OF_FILE"})

\* the parser steps that call advance(): the four that call it themselves, and
\* expect() and parse_expression() when their check succeeds
CallsAdvance ==
    \/ ParseDeclFunction \/ ParseDeclSkip \/ StmtReturn \/ StmtSkip
    \/ (phase = "parse" /\ par'.pos # par.pos)

\* parse_declaration reads the token after the current one
ReadsLookahead ==
    phase = "parse" /\ par.pc = "parse" /\ ParPeek(m_tokens, par.pos).type = "INT"

\* C13: on the tokens tokenize returned, the parser's cursor never passes the
\* first END_OF_FILE token, the index peek reads and the index the lookahead
\* reads (when the current token is INT) are inside the sequence, and advance
\* is called only while the current token is not END_OF_FILE.
C13_CursorWithinTokens ==
    [][/\ phase' # "lex" =>
            /\ par'.pos >= 0
            /\ par'.pos <= FirstEndOfFile(m_tokens')
            /\ par'.pos < Len(m_tokens')
       /\ ReadsLookahead => par.pos + 1 < Len(m_tokens)
       /\ CallsAdvance =>
            /\ ~ParAtEnd(m_tokens, par.pos)
            /\ par'.pos = par.pos + 1]_vars

\* `int` followed by the END_OF_FILE of an unterminated string: the lookahead
\* read that token, `int` was skipped, and the cursor rests on the first of the
\* two END_OF_FILE tokens
C13_Witness ==
    /\ phase = "codegen"
    /\ par.pos >= 1
    /\ m_tokens[par.pos].type = "INT"
    /\ ParAtEnd(m_tokens, par.pos)
    /\ par.pos + 2 = Len(m_tokens)
    /\ par.statements[Len(par.statements)] = NullNode

-----------------------------------------------------------------------------
(* Properties of the code generator and of the pipeline *)

\* C2: a second call of generate on the same generator returns the text the
\* first call returned.
C2_GenerateIdempotent ==
    \A i \in 1..Len(results) : results[i] = results[1]

\* the lines the claim lists for the returns 1..n of function k
RECURSIVE ExpectedReturns(_, _)
ExpectedReturns(k, n) ==
    IF n = 0 THEN <<>>
    ELSE ExpectedReturns(k, n - 1)
         \o txt_mov_rax \o Numeral(k, n) \o <<"\n">>
         \o txt_mov_rsp_rbp \o txt_pop_rbp \o txt_ret

\* the lines the claim lists for the functions 1..k of a program shape
RECURSIVE ExpectedFunctions(_, _)
ExpectedFunctions(shape, k) ==
    IF k = 0 THEN <<>>
    ELSE ExpectedFunctions(shape, k - 1)
         \o FuncName(k) \o <<":", "\n">> \o txt_push_rbp \o txt_mov_rbp_rsp
         \o ExpectedReturns(k, shape[k])

ExpectedAssembly(shape) ==
    txt_global \o txt_section \o ExpectedFunctions(shape, Len(shape))

\* every program of the family, with the text the claim lists for it
Programs ==
    {[source |-> ProgramSource(shape), assembly |-> ExpectedAssembly(shape)] :
        shape \in Shapes}

\* C5: for a program of function definitions `int <ident>() { (return <digits>;)* }`
\* the pipeline returns the preamble once, then per function the label and the
\* prologue, then per return statement the mov, the epilogue and ret; nothing else.
C5_PipelineOutput ==
    Len(results) >= 1 =>
        \A pr \in Programs : m_source = pr.source => results[1] = pr.assembly

\* two functions: the first with two return statements, the second with none
C5_Witness ==
    /\ Len(results) >= 1
    /\ m_source = ProgramSource(<<2, 0>>)
    /\ Len(m_ast) = 2
    /\ Len(m_ast[1].body.statements) = 2
    /\ Len(m_ast[2].body.statements) = 0

====
